---- MODULE Spec2Model ----
(***************************************************************************)
(* Signaling relay of webrtc-video-chat (src/unnamed/part_000).            *)
(*                                                                         *)
(* The relay is a Node process: one registry `users`, one 'connection'     *)
(* listener, and per connection an onmessage and an onclose handler.  Each *)
(* handler runs to completion; an exception a handler does not catch is an *)
(* uncaught exception of the process, which ends the relay.                *)
(***************************************************************************)
EXTENDS Integers, Sequences, FiniteSets

\* ------------------------------------------------------------------ bounds
\* number of connections the server accepts in one run
MaxConn == 3
\* number of browser clients that connect in one run
MaxClients == 2
\* number of offers, answers and candidates one client sends in one run
MaxSends == 2

\* ----------------------------------------------------------- value domains
\* the JavaScript value undefined (as an object key it is the string "undefined")
Undefined == "undefined"
\* the empty string, the default senderId of a client that has no id yet
EmptyId == ""
\* a well-formed id the generator never produced
BogusId == "bogus"
\* a missing connection field (user.connection === undefined)
NoConnection == 0

\* values uuid.v4() returns, in the order it returns them
UuidPool == <<"u1", "u2", "u3", "u4", "u5", "u6">>

\* message type names imported from message-types.js
messageTypes ==
    [ join                  |-> "join",
      userList              |-> "userList",
      signalServerConnected |-> "signalServerConnected",
      offer                 |-> "offer",
      answer                |-> "answer",
      iceCandidate          |-> "ice-candidate" ]

\* types an inbound envelope may carry: the known ones, a type the relay has
\* never heard of, and two names every JavaScript object inherits
Types == { messageTypes.join, messageTypes.offer, messageTypes.answer,
           messageTypes.iceCandidate, "ping", "constructor", "__proto__" }

UserNames == {"Alice", "Bob", Undefined}
Payloads  == {"sdp1", "sdp2"}

\* JavaScript truthiness of a string-or-undefined value
Truthy(v) == v \notin {EmptyId, Undefined}

VARIABLES
    relay,          \* "running" | "crashed" (uncaught exception)
    users,          \* the registry, in property insertion order
    uuidCount,      \* how many ids uuid.v4() has produced
    closureUserId,  \* per accepted connection: user.userId of its closure
    readyState,     \* per accepted connection: "open" | "closed"
    firstRecv,      \* per accepted connection: first object ever sent to it
    ev,             \* the event whose handler ran last; Idle once it returned
    out,            \* connection.send calls that handler made, in order
    clients,        \* per connection: `state` of the browser client behind it
    toClient,       \* per connection: objects sent by the relay, not yet handled
    toRelay         \* per connection: envelopes sent by the client, not yet handled

\* the relay and what is observed of it
rvars == <<relay, users, uuidCount, closureUserId, readyState, firstRecv, ev, out>>

\* the browser clients and the two directions of their sockets
cvars == <<clients, toClient, toRelay>>

vars == <<relay, users, uuidCount, closureUserId, readyState, firstRecv, ev, out,
          clients, toClient, toRelay>>

Connections == 1..Len(closureUserId)
OpenConnections == {c \in Connections : readyState[c] = "open"}

\* ------------------------------------------------------- registry (object)
\* own keys of the object `users`
Keys(us) == {us[i].key : i \in 1..Len(us)}

HasKey(us, k) == \E i \in 1..Len(us) : us[i].key = k

IndexOf(us, k) == CHOOSE i \in 1..Len(us) : us[i].key = k

\* {...undefined}: an object without connection, userId and userName
SpreadOfUndefined(k) ==
    [key |-> k, connection |-> NoConnection, userId |-> Undefined, userName |-> Undefined]

\* users[k]; a missing key reads as undefined, whose fields all read as undefined
UsersGet(us, k) == IF HasKey(us, k) THEN us[IndexOf(us, k)] ELSE SpreadOfUndefined(k)

\* users[k] = v: an existing key keeps its position, a new key is appended
UsersPut(us, k, v) ==
    IF HasKey(us, k)
    THEN [us EXCEPT ![IndexOf(us, k)] = v]
    ELSE Append(us, v)

\* variant: the delete names a key the registry does not hold
UsersDelete_WrongKey(us, k) == us

\* delete users[k]: nothing happens when the key is absent
UsersDelete(us, k) == SelectSeq(us, LAMBDA e : e.key # k)

\* ------------------------------------------------------------------ JSON
\* JSON.stringify(value): always the compact text of the value
JSON_stringify(value) == [syntax |-> "json", fmt |-> "compact", body |-> value]

\* whether JSON.parse(text) returns (it throws SyntaxError otherwise)
JSON_parses(text) == text.syntax = "json"

\* JSON.parse(text): the value, whatever the whitespace of the text was
JSON_parse(text) == text.body

\* ------------------------------------------------------------- sending
\* what one handler produced: the registry it leaves, the send calls it made
\* (in order) and whether it ended by throwing
Result(us, sends, threw) == [users |-> us, out |-> sends, threw |-> threw]

\* one call connection.send(JSON.stringify(message)) on the handle `connection`
Send(connection, message) == [to |-> connection, data |-> JSON_stringify(message)]

\* sendToUser(user, message): user.connection.send(...); reading .send of an
\* undefined connection (or .connection of an undefined user) throws TypeError
sendToUser(us, user, message) ==
    IF user.connection = NoConnection
    THEN Result(us, <<>>, TRUE)
    ELSE Result(us, <<Send(user.connection, message)>>, FALSE)

\* index of the first entry of the registry that has no connection, 0 if none
FirstWithoutConnection(us) ==
    LET bad == {i \in 1..Len(us) : us[i].connection = NoConnection}
    IN  IF bad = {} THEN 0 ELSE CHOOSE i \in bad : \A j \in bad : i <= j

\* sendToAllUsers(message): Object.values(users).forEach(send); the forEach
\* stops at the first entry whose connection is undefined, by throwing
sendToAllUsers(us, message) ==
    LET stop == FirstWithoutConnection(us)
        n    == IF stop = 0 THEN Len(us) ELSE stop - 1
    IN  Result(us, [i \in 1..n |-> Send(us[i].connection, message)], stop # 0)

\* getUserList(): one {userName, userId} per value of the registry
getUserList(us) ==
    [i \in 1..Len(us) |-> [userName |-> us[i].userName, userId |-> us[i].userId]]

\* the envelope sendUpdatedUserList builds
UserListMessage(us) == [type |-> messageTypes.userList, users |-> getUserList(us)]

sendUpdatedUserList(us) == sendToAllUsers(us, UserListMessage(us))

\* ------------------------------------------------------------ handlers
\* variant: a participant that already has a name keeps it
handleJoin_FirstNameWins(us, message) ==
    LET user == UsersGet(us, message.senderId)
        name == IF user.userName # Undefined THEN user.userName ELSE message.userName
    IN  sendUpdatedUserList(UsersPut(us, message.senderId,
                                     [user EXCEPT !.userName = name]))

\* handleJoin(message): users[senderId] = {...users[senderId], userName}
handleJoin(us, message) ==
    LET user == UsersGet(us, message.senderId)
        us2  == UsersPut(us, message.senderId,
                         [user EXCEPT !.userName = message.userName])
    IN  sendUpdatedUserList(us2)

\* variant: handleJoin is not registered under messageTypes.join
messageHandlersGet_JoinUnregistered(type) ==
    CASE type = "constructor" -> "Object"
      [] type = "__proto__"   -> "Object.prototype"
      [] OTHER                -> Undefined

\* messageHandlers[type]: the own property `join`, or what the object literal
\* inherits from Object.prototype, or undefined
messageHandlersGet(type) ==
    CASE type = messageTypes.join -> "handleJoin"
      [] type = "constructor"      -> "Object"
      [] type = "__proto__"        -> "Object.prototype"
      [] OTHER                     -> Undefined

\* handler(message) for a truthy handler: handleJoin runs; Object(message)
\* returns without effect; Object.prototype is not callable (TypeError)
CallHandler(handler, us, message) ==
    CASE handler = "handleJoin" -> handleJoin(us, message)
      [] handler = "Object"     -> Result(us, <<>>, FALSE)
      [] OTHER                  -> Result(us, <<>>, TRUE)

\* handleMessage(message)
handleMessage(us, message) ==
    LET handler == messageHandlersGet(message.type)
    IN  IF handler # Undefined
        THEN CallHandler(handler, us, message)
        ELSE IF Truthy(message.senderId) /\ Truthy(message.recipientId)
             THEN sendToUser(us, UsersGet(us, message.recipientId), message)
             ELSE Result(us, <<>>, FALSE)

\* connection.onmessage(event): JSON.parse(event.data), then handleMessage
onmessage(us, data) ==
    IF JSON_parses(data)
    THEN handleMessage(us, JSON_parse(data))
    ELSE Result(us, <<>>, TRUE)

\* connection.onclose(): delete users[user.userId]; sendUpdatedUserList()
onclose(us, userId) == sendUpdatedUserList(UsersDelete(us, userId))

\* variant: a generator that hands out the same two values in turn
uuid_v4_Repeating(count) == UuidPool[(count % 2) + 1]

\* uuid.v4(): the next value of the generator
uuid_v4(count) == UuidPool[count + 1]

\* the user object the connection listener builds
NewUser(connection, userId) ==
    [key |-> userId, connection |-> connection, userId |-> userId, userName |-> Undefined]

\* the envelope the connection listener sends first
ConnectedMessage(userId) ==
    [type |-> messageTypes.signalServerConnected, userId |-> userId]

\* variant: the roster is broadcast before the newcomer is told its id
onconnection_RosterFirst(us, connection, userId) ==
    LET user  == NewUser(connection, userId)
        us2   == UsersPut(us, userId, user)
        first == sendUpdatedUserList(us2)
        then  == sendToUser(us2, user, ConnectedMessage(userId))
    IN  Result(us2, first.out \o then.out, first.threw \/ then.threw)

\* webSocketServer.on('connection'): register the user, tell it its id
onconnection(us, connection, userId) ==
    LET user == NewUser(connection, userId)
    IN  sendToUser(UsersPut(us, userId, user), user, ConnectedMessage(userId))

\* ------------------------------------------------------------ environment
\* ids a client can put into an envelope: those handed out so far, the
\* empty default, and one that was never handed out
IdInputs == {UuidPool[i] : i \in 1..uuidCount} \cup {EmptyId, BogusId}

\* envelopes a client can send
JoinEnvelopes ==
    [type : {messageTypes.join}, senderId : IdInputs,
     recipientId : IdInputs \cup {Undefined}, userName : UserNames,
     payload : {Undefined}]

OtherEnvelopes ==
    [type : Types \ {messageTypes.join}, senderId : IdInputs,
     recipientId : IdInputs, userName : {Undefined}, payload : Payloads]

\* texts that arrive as event.data: an envelope in compact or indented JSON,
\* or a text that is no JSON at all
Garbage == [syntax |-> "garbage", fmt |-> "compact", body |-> Undefined]

InboundData ==
    [syntax : {"json"}, fmt : {"compact", "pretty"},
     body : JoinEnvelopes \cup OtherEnvelopes] \cup {Garbage}

NoData == [syntax |-> "none", fmt |-> "compact", body |-> Undefined]

Event(kind, connection, data) == [kind |-> kind, conn |-> connection, data |-> data]

\* no handler is running and the sockets have taken what was sent
Idle == Event("idle", 0, NoData)

\* the event loop can dispatch the next event
Ready == relay = "running" /\ ev = Idle

\* firstRecv after the send calls `sends`
FirstAfter(first, sends) ==
    [c \in 1..Len(first) |->
        IF first[c] # <<>> THEN first[c]
        ELSE LET at == {i \in 1..Len(sends) : sends[i].to = c}
             IN  IF at = {} THEN <<>>
                 ELSE <<JSON_parse(sends[CHOOSE i \in at : \A j \in at : i <= j].data)>>]

\* the state a handler leaves behind
Finish(r) ==
    /\ users' = r.users
    /\ out' = r.out
    /\ relay' = IF r.threw THEN "crashed" ELSE "running"

\* ---------------------------------------------------------------- actions
Init ==
    /\ relay = "running"
    /\ users = <<>>
    /\ uuidCount = 0
    /\ closureUserId = <<>>
    /\ readyState = <<>>
    /\ firstRecv = <<>>
    /\ ev = Idle
    /\ out = <<>>
    /\ clients = <<>>
    /\ toClient = <<>>
    /\ toRelay = <<>>

\* a client connects
OnConnection ==
    /\ Ready
    /\ uuidCount < MaxConn
    /\ LET c  == Len(closureUserId) + 1
           id == uuid_v4(uuidCount)
           r  == onconnection(users, c, id)
       IN  /\ Finish(r)
           /\ uuidCount' = uuidCount + 1
           /\ closureUserId' = Append(closureUserId, id)
           /\ readyState' = Append(readyState, "open")
           /\ firstRecv' = FirstAfter(Append(firstRecv, <<>>), r.out)
           /\ ev' = Event("connection", c, NoData)
           /\ UNCHANGED cvars

\* an open connection delivers a message
OnMessage ==
    /\ Ready
    /\ \E c \in OpenConnections, data \in InboundData :
         LET r == onmessage(users, data)
         IN  /\ Finish(r)
             /\ firstRecv' = FirstAfter(firstRecv, r.out)
             /\ ev' = Event("message", c, data)
             /\ UNCHANGED <<uuidCount, closureUserId, readyState>>
             /\ UNCHANGED cvars

\* an open connection closes
OnClose ==
    /\ Ready
    /\ \E c \in OpenConnections :
         LET r == onclose(users, closureUserId[c])
         IN  /\ Finish(r)
             /\ readyState' = [readyState EXCEPT ![c] = "closed"]
             /\ firstRecv' = FirstAfter(firstRecv, r.out)
             /\ ev' = Event("close", c, NoData)
             /\ UNCHANGED <<uuidCount, closureUserId>>
             /\ UNCHANGED cvars

\* the handler has returned: the event loop takes over again
ReturnToEventLoop ==
    /\ relay = "running"
    /\ ev # Idle
    /\ ev' = Idle
    /\ out' = <<>>
    /\ UNCHANGED <<relay, users, uuidCount, closureUserId, readyState, firstRecv>>
    /\ UNCHANGED cvars

Next == OnConnection \/ OnMessage \/ OnClose \/ ReturnToEventLoop

Spec == Init /\ [][Next]_vars

\* the close handler of a connection runs a second time
OnCloseAgain ==
    /\ Ready
    /\ \E c \in Connections \ OpenConnections :
         LET r == onclose(users, closureUserId[c])
         IN  /\ Finish(r)
             /\ firstRecv' = FirstAfter(firstRecv, r.out)
             /\ ev' = Event("close", c, NoData)
             /\ UNCHANGED <<uuidCount, closureUserId, readyState>>
             /\ UNCHANGED cvars

NextReclose == Next \/ OnCloseAgain

SpecReclose == Init /\ [][NextReclose]_vars

\* ------------------------------------------------------ reading a state
\* the envelope of the message event handled last
Msg == JSON_parse(ev.data)

\* the event handled last is a message that decoded to an envelope
IsEnvelope(e) == e.kind = "message" /\ JSON_parses(e.data)

IsJoin(e) == IsEnvelope(e) /\ JSON_parse(e.data).type = messageTypes.join

\* a non-join envelope with non-empty senderId and recipientId
IsForwardable(e) ==
    /\ IsEnvelope(e)
    /\ JSON_parse(e.data).type # messageTypes.join
    /\ Truthy(JSON_parse(e.data).senderId)
    /\ Truthy(JSON_parse(e.data).recipientId)

\* the objects sent to connection c by the handler that ran last, in order
SentTo(sends, c) ==
    LET at == SelectSeq(sends, LAMBDA s : s.to = c)
    IN  [i \in 1..Len(at) |-> JSON_parse(at[i].data)]

IsUserList(m) == m.type = messageTypes.userList

\* ids listed by a userList envelope
ListedIds(m) == {m.users[i].userId : i \in 1..Len(m.users)}

\* ids of the connections that were accepted and have not closed
OpenIds == {closureUserId[c] : c \in OpenConnections}

\* ------------------------------------------------ client (browser side)
\* what the user typed into the name input of client c
UserNameInput(c) == IF c % 2 = 1 THEN "Alice" ELSE "Bob"

\* state.peers: entries in insertion order
PeersHas(ps, id) == \E i \in 1..Len(ps) : ps[i].userId = id

PeersGet(ps, id) == ps[CHOOSE i \in 1..Len(ps) : ps[i].userId = id]

PeerIds(ps) == {ps[i].userId : i \in 1..Len(ps)}

\* `state` as the module creates it, with the socket just opened; the three
\* ...Due fields are the asynchronous sends that are under way, `sends`
\* counts those that were made, `handled` is the set of relayed message types
\* a handler has run for
NewClient ==
    [ stage            |-> "media",
      userId           |-> EmptyId,
      isNewUser        |-> TRUE,
      localMediaStream |-> FALSE,
      peers            |-> <<>>,
      offerDue         |-> {},
      answerDue        |-> {},
      iceDue           |-> {},
      sends            |-> 0,
      handled          |-> {} ]

\* sendSignalMessage(message): the sender id is read when the message is sent
SignalMessage(cl, type, recipientId, userName, payload) ==
    [type |-> type, senderId |-> cl.userId, recipientId |-> recipientId,
     userName |-> userName, payload |-> payload]

\* saveUserId(message)
saveUserId(cl, message) == [cl EXCEPT !.userId = message.userId]

\* the forEach of updateUserList, from entry i of the list on
RECURSIVE AddPeers(_, _, _, _)
AddPeers(ps, list, i, ownId) ==
    IF i > Len(list) THEN ps
    ELSE LET u == list[i]
         IN  IF u.userId # ownId /\ ~PeersHas(ps, u.userId)
             THEN AddPeers(Append(ps, [userId |-> u.userId, userName |-> u.userName,
                                       peerConnection |-> FALSE]),
                           list, i + 1, ownId)
             ELSE AddPeers(ps, list, i + 1, ownId)

\* initPeerConnection(peer) for every peer whose id is in `ids`: the entry
\* gets a peerConnection, whose negotiationneeded event will fire
initPeerConnection(cl, ids) ==
    [cl EXCEPT
       !.peers = [i \in 1..Len(cl.peers) |->
                    IF cl.peers[i].userId \in ids
                    THEN [cl.peers[i] EXCEPT !.peerConnection = TRUE]
                    ELSE cl.peers[i]],
       !.offerDue = cl.offerDue \cup ids]

\* callPeers()
callPeers(cl) == initPeerConnection(cl, PeerIds(cl.peers))

\* variant: only the first userList is looked at
updateUserList_OnlyFirstList(cl, message) ==
    IF cl.isNewUser
    THEN callPeers([cl EXCEPT !.peers = AddPeers(cl.peers, message.users, 1, cl.userId),
                              !.isNewUser = FALSE])
    ELSE cl

\* updateUserList(message)
updateUserList(cl, message) ==
    LET cl2 == [cl EXCEPT !.peers = AddPeers(cl.peers, message.users, 1, cl.userId)]
    IN  IF cl2.isNewUser THEN callPeers([cl2 EXCEPT !.isNewUser = FALSE]) ELSE cl2

\* respondToOffer(message), up to its first await: state.peers[senderId] is
\* dereferenced (TypeError when it is missing), a peerConnection is created
\* if there is none; the answer follows later
respondToOffer(cl, message) ==
    IF ~PeersHas(cl.peers, message.senderId)
    THEN cl
    ELSE LET cl2 == IF PeersGet(cl.peers, message.senderId).peerConnection
                    THEN cl
                    ELSE initPeerConnection(cl, {message.senderId})
         IN  [cl2 EXCEPT !.answerDue = cl2.answerDue \cup {message.senderId}]

\* saveSdpAnswer(message): hands the description to the peerConnection of
\* state.peers[senderId] (TypeError when either is missing); `state` stays
saveSdpAnswer(cl, message) == cl

\* addIceCandidate(message): hands the candidate to the peerConnection of
\* state.peers[senderId] (TypeError when either is missing); `state` stays
addIceCandidate(cl, message) == cl

\* types of the envelopes clients send to one another through the relay
RelayedTypes == {messageTypes.offer, messageTypes.answer, messageTypes.iceCandidate}

\* messageHandlers[message.type](message) of the client
clientHandle(cl, message) ==
    CASE message.type = messageTypes.signalServerConnected -> saveUserId(cl, message)
      [] message.type = messageTypes.userList -> updateUserList(cl, message)
      [] message.type = messageTypes.offer ->
            respondToOffer([cl EXCEPT !.handled = @ \cup {message.type}], message)
      [] message.type = messageTypes.answer ->
            saveSdpAnswer([cl EXCEPT !.handled = @ \cup {message.type}], message)
      [] message.type = messageTypes.iceCandidate ->
            addIceCandidate([cl EXCEPT !.handled = @ \cup {message.type}], message)
      [] OTHER -> cl

\* toClient after the send calls `sends`: each socket keeps the order
Deliver(queues, sends) ==
    [c \in 1..Len(queues) |-> queues[c] \o SentTo(sends, c)]

\* what a handler of the relay leaves behind when clients are attached
FinishWithClients(r, queues) ==
    /\ users' = r.users
    /\ relay' = IF r.threw THEN "crashed" ELSE "running"
    /\ toClient' = Deliver(queues, r.out)
    /\ firstRecv' = FirstAfter(
                       IF Len(queues) > Len(firstRecv) THEN Append(firstRecv, <<>>)
                       ELSE firstRecv, r.out)
    /\ UNCHANGED <<ev, out>>

\* a browser opens its socket: the relay accepts it, joinCall goes on to
\* wait for getUserMedia
ClientConnect ==
    /\ relay = "running"
    /\ uuidCount < MaxClients
    /\ LET c  == Len(closureUserId) + 1
           id == uuid_v4(uuidCount)
       IN  /\ FinishWithClients(onconnection(users, c, id), Append(toClient, <<>>))
           /\ uuidCount' = uuidCount + 1
           /\ closureUserId' = Append(closureUserId, id)
           /\ readyState' = Append(readyState, "open")
           /\ clients' = Append(clients, NewClient)
           /\ toRelay' = Append(toRelay, <<>>)

\* getUserMedia resolves: initLocalVideo completes and sendJoinMessage runs
ClientMediaReady ==
    /\ relay = "running"
    /\ \E c \in OpenConnections :
         /\ clients[c].stage = "media"
         /\ clients' = [clients EXCEPT ![c].stage = "joined",
                                       ![c].localMediaStream = TRUE]
         /\ toRelay' = [toRelay EXCEPT ![c] =
                Append(@, SignalMessage(clients[c], messageTypes.join, Undefined,
                                        UserNameInput(c), Undefined))]
         /\ UNCHANGED <<rvars, toClient>>

\* the socket of a client delivers the next message of the relay
ClientReceive ==
    \E c \in OpenConnections :
         /\ toClient[c] # <<>>
         /\ clients' = [clients EXCEPT ![c] = clientHandle(@, Head(toClient[c]))]
         /\ toClient' = [toClient EXCEPT ![c] = Tail(@)]
         /\ UNCHANGED <<rvars, toRelay>>

\* createOffer(event, peerContext) reaches its sendSignalMessage
ClientSendOffer ==
    /\ relay = "running"
    /\ \E c \in OpenConnections : \E p \in clients[c].offerDue :
         /\ clients[c].sends < MaxSends
         /\ clients' = [clients EXCEPT ![c].sends = @ + 1,
                                       ![c].offerDue = @ \ {p},
                                       ![c].iceDue = @ \cup {p}]
         /\ toRelay' = [toRelay EXCEPT ![c] =
                Append(@, SignalMessage(clients[c], messageTypes.offer, p, Undefined, "sdp1"))]
         /\ UNCHANGED <<rvars, toClient>>

\* respondToOffer(message) reaches its sendSignalMessage
ClientSendAnswer ==
    /\ relay = "running"
    /\ \E c \in OpenConnections : \E p \in clients[c].answerDue :
         /\ clients[c].sends < MaxSends
         /\ clients' = [clients EXCEPT ![c].sends = @ + 1,
                                       ![c].answerDue = @ \ {p},
                                       ![c].iceDue = @ \cup {p}]
         /\ toRelay' = [toRelay EXCEPT ![c] =
                Append(@, SignalMessage(clients[c], messageTypes.answer, p, Undefined, "sdp2"))]
         /\ UNCHANGED <<rvars, toClient>>

\* sendIceCandidateToPeer(event, peerContext) with a candidate
ClientSendIceCandidate ==
    /\ relay = "running"
    /\ \E c \in OpenConnections : \E p \in clients[c].iceDue :
         /\ clients[c].sends < MaxSends
         /\ clients' = [clients EXCEPT ![c].sends = @ + 1,
                                       ![c].iceDue = @ \ {p}]
         /\ toRelay' = [toRelay EXCEPT ![c] =
                Append(@, SignalMessage(clients[c], messageTypes.iceCandidate, p,
                                        Undefined, "sdp1"))]
         /\ UNCHANGED <<rvars, toClient>>

\* connection.onmessage of the relay for the next envelope of a client
RelayReceive ==
    /\ relay = "running"
    /\ \E c \in OpenConnections :
         /\ toRelay[c] # <<>>
         /\ FinishWithClients(onmessage(users, JSON_stringify(Head(toRelay[c]))), toClient)
         /\ toRelay' = [toRelay EXCEPT ![c] = Tail(@)]
         /\ UNCHANGED <<uuidCount, closureUserId, readyState, clients>>

\* a browser leaves: its socket closes and connection.onclose runs
ClientLeave ==
    /\ relay = "running"
    /\ \E c \in OpenConnections :
         /\ toRelay[c] = <<>>
         /\ FinishWithClients(onclose(users, closureUserId[c]),
                              [toClient EXCEPT ![c] = <<>>])
         /\ readyState' = [readyState EXCEPT ![c] = "closed"]
         /\ clients' = [clients EXCEPT ![c].stage = "closed", ![c].offerDue = {},
                                       ![c].answerDue = {}, ![c].iceDue = {}]
         /\ UNCHANGED <<uuidCount, closureUserId, toRelay>>

NextClients ==
    \/ ClientConnect
    \/ ClientMediaReady
    \/ ClientReceive
    \/ ClientSendOffer
    \/ ClientSendAnswer
    \/ ClientSendIceCandidate
    \/ RelayReceive
    \/ ClientLeave

SpecClients == Init /\ [][NextClients]_vars

\* --------------------------------------------------------------- claims

\* C1: in every reachable state the keys of `users` are exactly the ids of
\* the connections that were accepted and have not closed.
C1_RegistryIsOpenConnections == Keys(users) = OpenIds

\* C2: a non-join envelope with non-empty senderId and a registered
\* recipientId is delivered exactly once, unchanged, to the recipient's
\* connection and to no other connection, whatever its type.
C2_ForwardExactlyOnce ==
    (IsForwardable(ev) /\ HasKey(users, Msg.recipientId)) =>
        /\ Len(out) = 1
        /\ out[1].to = UsersGet(users, Msg.recipientId).connection
        /\ JSON_parse(out[1].data) = Msg

\* C3: a forwardable envelope whose recipientId is not in the registry is
\* dropped silently: nothing is sent, nothing is thrown, the relay goes on.
C3_UnknownRecipientDropped ==
    (IsForwardable(ev) /\ ~HasKey(users, Msg.recipientId)) =>
        (out = <<>> /\ relay = "running")

\* C4: a join of a registered sender P with userName u sets P's userName to
\* u (last write wins) and sends one userList, listing {P, u}, to every
\* registered participant.
C4_JoinNamesAndBroadcasts ==
    [][ (IsJoin(ev') /\ HasKey(users, JSON_parse(ev'.data).senderId)) =>
          LET m == JSON_parse(ev'.data)
          IN  /\ relay' = "running"
              /\ UsersGet(users', m.senderId).userName = m.userName
              /\ Len(out') = Len(users')
              /\ \A i \in 1..Len(users') :
                    LET got == SentTo(out', users'[i].connection)
                    IN  /\ Len(got) = 1
                        /\ IsUserList(got[1])
                        /\ \E k \in 1..Len(got[1].users) :
                              /\ got[1].users[k].userId = m.senderId
                              /\ got[1].users[k].userName = m.userName
      ]_vars

\* a join that renames a registered participant while others are registered
C4_Witness ==
    /\ IsJoin(ev)
    /\ relay = "running"
    /\ Len(users) >= 2
    /\ Len(out) >= 2
    /\ Msg.userName = "Bob"
    /\ UsersGet(users, Msg.senderId).userName = "Bob"

\* C5: every userList the relay sends lists exactly the participants of the
\* registry, one entry each; after N connects and no disconnect it has N
\* entries, each carrying the id of one of the N connections.
C5_RosterIsRegistry ==
    \A j \in 1..Len(out) :
        LET m == JSON_parse(out[j].data)
        IN  IsUserList(m) =>
              /\ Len(m.users) = Len(users)
              /\ ListedIds(m) = Keys(users)
              /\ Cardinality(ListedIds(m)) = Len(m.users)
              /\ (OpenConnections = Connections =>
                    /\ Len(m.users) = Len(closureUserId)
                    /\ ListedIds(m) = {closureUserId[c] : c \in Connections})

\* C6: when the connection of a registered participant P closes, exactly
\* P's entry leaves the registry, every remaining participant is sent one
\* userList that does not list P, and nothing is ever sent to a connection
\* that has closed.
C6_CloseRemovesAndBroadcasts ==
    [][ /\ (ev'.kind = "close" /\ HasKey(users, closureUserId[ev'.conn])) =>
             LET P == closureUserId[ev'.conn]
             IN  /\ Keys(users') = Keys(users) \ {P}
                 /\ Len(users') = Len(users) - 1
                 /\ \A k \in Keys(users') : UsersGet(users', k) = UsersGet(users, k)
                 /\ Len(out') = Len(users')
                 /\ \A i \in 1..Len(users') :
                       LET got == SentTo(out', users'[i].connection)
                       IN  /\ Len(got) = 1
                           /\ IsUserList(got[1])
                           /\ P \notin ListedIds(got[1])
        /\ \A j \in 1..Len(out') : readyState'[out'[j].to] = "open"
      ]_vars

\* a participant has left while two others stay and are told
C6_Witness ==
    /\ ev.kind = "close"
    /\ relay = "running"
    /\ Len(users) = 2
    /\ Len(out) = 2
    /\ ~HasKey(users, closureUserId[ev.conn])

\* C7: when the close handler runs a second time for the same participant
\* it changes nothing and sends nothing.
C7_SecondCloseIsNoOp ==
    [][ (ev'.kind = "close" /\ readyState[ev'.conn] = "closed") =>
          (users' = users /\ out' = <<>>) ]_vars

\* C8: a join whose senderId is not a key of the registry is a no-op: the
\* registry is unchanged, nothing is sent, nothing is thrown.
C8_UnknownJoinIsNoOp ==
    [][ (IsJoin(ev') /\ ~HasKey(users, JSON_parse(ev'.data).senderId)) =>
          (users' = users /\ out' = <<>> /\ relay' = "running") ]_vars

\* C9: accepting a connection adds one entry without userName and sends the
\* connection, and no other, the connected envelope with its id; that
\* envelope is the first thing every connection ever receives.
C9_ConnectedComesFirst ==
    [][ /\ ev'.kind = "connection" =>
             LET c  == ev'.conn
                 id == closureUserId'[c]
             IN  /\ Len(users') = Len(users) + 1
                 /\ Keys(users') = Keys(users) \cup {id}
                 /\ ~HasKey(users, id)
                 /\ UsersGet(users', id).userName = Undefined
                 /\ UsersGet(users', id).userId = id
                 /\ UsersGet(users', id).connection = c
                 /\ \A k \in Keys(users) : UsersGet(users', k) = UsersGet(users, k)
                 /\ Len(out') = 1
                 /\ out'[1].to = c
                 /\ JSON_parse(out'[1].data) =
                        [type |-> messageTypes.signalServerConnected, userId |-> id]
        /\ \A c \in 1..Len(closureUserId') :
             firstRecv'[c] =
                <<[type |-> messageTypes.signalServerConnected,
                   userId |-> closureUserId'[c]]>>
      ]_vars

\* a connection accepted next to others has since received a userList
C9_Witness ==
    /\ Len(closureUserId) >= 2
    /\ \E j \in 1..Len(out) :
          /\ out[j].to = Len(closureUserId)
          /\ IsUserList(JSON_parse(out[j].data))

\* C10: the ids assigned on connect are pairwise distinct over the whole
\* run, also after an earlier holder has disconnected.
C10_IdsNeverReused ==
    \A c1, c2 \in Connections : c1 # c2 => closureUserId[c1] # closureUserId[c2]

\* a connection is accepted after an earlier one has closed
C10_Witness ==
    /\ ev.kind = "connection"
    /\ \E c \in Connections : c < ev.conn /\ readyState[c] = "closed"

\* C11: a message that cannot be decoded is dropped without effect: nothing
\* is sent and the relay keeps running.
C11_MalformedIsDropped ==
    (ev.kind = "message" /\ ~JSON_parses(ev.data)) =>
        (out = <<>> /\ relay = "running")

\* the handler that ran last broadcasts a roster
IsBroadcast(e) == IsJoin(e) \/ e.kind = "close"

\* C12: when a roster broadcast meets an entry it cannot send to, every
\* other entry still gets the userList and the relay is not aborted.
C12_BroadcastSurvivesFailure ==
    (IsBroadcast(ev) /\ \E i \in 1..Len(users) : users[i].connection = NoConnection) =>
        /\ relay = "running"
        /\ \A i \in 1..Len(users) :
              users[i].connection # NoConnection =>
                 \E j \in 1..Len(out) :
                    /\ out[j].to = users[i].connection
                    /\ IsUserList(JSON_parse(out[j].data))

\* C13: every registry entry carries a userId equal to its key and to the id
\* assigned to its connection, and the connection it was created with.
C13_EntryKeepsIdAndConnection ==
    \A i \in 1..Len(users) :
        /\ users[i].userId = users[i].key
        /\ users[i].connection \in Connections
        /\ closureUserId[users[i].connection] = users[i].key

\* C14: a forwardable envelope whose senderId is not in the registry is not
\* delivered, also when its recipient is registered.
C14_StaleSenderNotForwarded ==
    (IsForwardable(ev) /\ ~HasKey(users, Msg.senderId)) => out = <<>>

\* C15: an envelope of type join is handled by handleJoin and never
\* forwarded, also when it names a sender and a registered recipient: all
\* that is sent is the userList, once to the recipient.
C15_JoinNeverForwarded ==
    IsJoin(ev) =>
        /\ \A j \in 1..Len(out) : IsUserList(JSON_parse(out[j].data))
        /\ UsersGet(users, Msg.recipientId).connection # NoConnection =>
              Len(SentTo(out, UsersGet(users, Msg.recipientId).connection)) = 1

\* a join that names a sender and another, registered, recipient
C15_Witness ==
    /\ IsJoin(ev)
    /\ relay = "running"
    /\ HasKey(users, Msg.senderId)
    /\ HasKey(users, Msg.recipientId)
    /\ Msg.recipientId # Msg.senderId
    /\ Len(out) >= 2

\* C16: a join with senderId P changes at most the userName of the entry
\* keyed P; any other envelope leaves the registry as it was.
C16_JoinAndRoutingFrame ==
    [][ /\ IsJoin(ev') =>
             LET P == JSON_parse(ev'.data).senderId
             IN  /\ Keys(users') = Keys(users)
                 /\ Len(users') = Len(users)
                 /\ \A k \in Keys(users) :
                       /\ UsersGet(users', k).userId = UsersGet(users, k).userId
                       /\ UsersGet(users', k).connection = UsersGet(users, k).connection
                       /\ k # P => UsersGet(users', k).userName = UsersGet(users, k).userName
        /\ (IsEnvelope(ev') /\ ~IsJoin(ev')) => users' = users
      ]_vars

\* client c handles the next message of its socket in this step
Received(c) ==
    /\ toClient[c] # <<>>
    /\ toClient'[c] = Tail(toClient[c])
    /\ UNCHANGED <<readyState, toRelay>>

\* C17: every join envelope a client sends carries the id the relay assigned
\* to the client's connection.
C17_JoinCarriesAssignedId ==
    \A c \in 1..Len(toRelay) : \A i \in 1..Len(toRelay[c]) :
        toRelay[c][i].type = messageTypes.join =>
            toRelay[c][i].senderId = closureUserId[c]

\* C18: callPeers and initPeerConnection run only once the local media stream
\* is there, and callPeers runs at most once per client.
C18_PeersCalledAfterMedia ==
    [][ \A c \in 1..Len(clients) :
          /\ (clients[c].isNewUser /\ ~clients'[c].isNewUser) =>
                clients[c].localMediaStream
          /\ (\E i \in 1..Len(clients'[c].peers) :
                 /\ clients'[c].peers[i].peerConnection
                 /\ ~(/\ PeersHas(clients[c].peers, clients'[c].peers[i].userId)
                      /\ PeersGet(clients[c].peers,
                                  clients'[c].peers[i].userId).peerConnection)) =>
                clients[c].localMediaStream
          /\ ~clients[c].isNewUser => ~clients'[c].isNewUser
      ]_vars

C20_PeerNamesFollowRoster ==
    [][ \A c \in 1..Len(toClient) :
          (Received(c) /\ IsUserList(Head(toClient[c]))) =>
             LET m == Head(toClient[c])
             IN  /\ clients'[c].userId \notin PeerIds(clients'[c].peers)
                 /\ \A i \in 1..Len(m.users) :
                       m.users[i].userId # clients'[c].userId =>
                          /\ PeersHas(clients'[c].peers, m.users[i].userId)
                          /\ PeersGet(clients'[c].peers, m.users[i].userId).userName
                                = m.users[i].userName
      ]_vars

====
